---- MODULE Spec2Model ----
(***************************************************************************)
(* Model of the compressed-files VS Code extension: the content provider   *)
(* CompressedContentProvider of src/src/extension.ts (its content cache,   *)
(* its in-flight set and its invalidation), the virtual identifiers the    *)
(* extension builds for a .br file, and the environment the provider runs  *)
(* in (the files on disk, the callers' cancellation tokens, the timer of   *)
(* a waiting call).                                                        *)
(*                                                                         *)
(* Text is a sequence of one-character strings, so that the encoding and   *)
(* the decoding of an identifier are computed character by character.     *)
(***************************************************************************)
EXTENDS Integers, Sequences, FiniteSets, TLC

(***************************************************************************)
(* Bounds of the model.                                                    *)
(***************************************************************************)
\* Number of provideTextDocumentContent calls issued in one behaviour.
MaxCalls == 2
\* Number of invalidate calls issued in one behaviour.
MaxInvalidates == 1
\* Length of the file names whose identifiers are built and mapped back.
MaxNameLen == 3
\* Number of pieces of the contents given to the classifier.
MaxPieces == 3
\* Number of bytes of the longest buffers beyond the sample of the binary
\* test.
MaxExcess == 10

(***************************************************************************)
(* Characters and text.                                                    *)
(***************************************************************************)
\* Characters that encodeURIComponent escapes, with their escape.
PctTable ==
  [ch \in {":", "/", "?", "#", "%", " "} |->
     CASE ch = ":" -> <<"%", "3", "A">>
       [] ch = "/" -> <<"%", "2", "F">>
       [] ch = "?" -> <<"%", "3", "F">>
       [] ch = "#" -> <<"%", "2", "3">>
       [] ch = "%" -> <<"%", "2", "5">>
       [] ch = " " -> <<"%", "2", "0">>]

\* Letters and digits of the model's alphabet ([0-9A-Za-z]).
AlphaNum ==
  {"a", "b", "c", "d", "e", "f", "i", "j", "l", "m", "n", "o", "p", "r", "s",
   "t", "A", "B", "F", "0", "1", "2", "3", "4", "5"}

\* The hexadecimal digits among them ([0-9A-Fa-f]).
HexDigits ==
  {"a", "b", "c", "d", "e", "f", "A", "B", "F", "0", "1", "2", "3", "4", "5"}

\* The character a well-formed escape %XY stands for.
HexChar(x, y) ==
  CASE x = "3" /\ y = "A" -> ":"
    [] x = "2" /\ y = "F" -> "/"
    [] x = "3" /\ y = "F" -> "?"
    [] x = "2" /\ y = "3" -> "#"
    [] x = "2" /\ y = "5" -> "%"
    [] x = "2" /\ y = "0" -> " "
    [] x = "4" /\ y = "1" -> "A"
    [] x = "4" /\ y = "2" -> "B"
    [] OTHER -> "~"

URIError == <<"URIError">>

Drop(s, n) == IF n >= Len(s) THEN <<>> ELSE SubSeq(s, n + 1, Len(s))
Take(s, n) == IF n >= Len(s) THEN s ELSE SubSeq(s, 1, n)

StartsWith(s, p) == Len(s) >= Len(p) /\ SubSeq(s, 1, Len(p)) = p
EndsWith(s, p) ==
  Len(s) >= Len(p) /\ SubSeq(s, Len(s) - Len(p) + 1, Len(s)) = p

\* Index of the first character of s that is in set, Len(s) + 1 when none.
IndexOfAny(s, set) ==
  IF \E i \in 1..Len(s) : s[i] \in set
  THEN CHOOSE i \in 1..Len(s) :
         s[i] \in set /\ \A j \in 1..(i - 1) : s[j] \notin set
  ELSE Len(s) + 1

\* Index of the last character of s that is in set, 0 when none.
LastIndexOfAny(s, set) ==
  IF \E i \in 1..Len(s) : s[i] \in set
  THEN CHOOSE i \in 1..Len(s) :
         s[i] \in set /\ \A j \in (i + 1)..Len(s) : s[j] \notin set
  ELSE 0

\* ECMAScript encodeURIComponent.
RECURSIVE encodeURIComponent(_)
encodeURIComponent(s) ==
  IF s = <<>> THEN <<>>
  ELSE (IF Head(s) \in DOMAIN PctTable THEN PctTable[Head(s)] ELSE <<Head(s)>>)
       \o encodeURIComponent(Tail(s))

\* Whether every "%" of s starts an escape %XY with X and Y hexadecimal.
WellFormedEscapes(s) ==
  \A i \in 1..Len(s) :
    s[i] = "%" =>
      i + 2 <= Len(s) /\ s[i + 1] \in HexDigits /\ s[i + 2] \in HexDigits

\* The text of s with every escape %XY replaced by its character.
RECURSIVE DecodeEscapes(_)
DecodeEscapes(s) ==
  IF s = <<>> THEN <<>>
  ELSE IF Head(s) # "%" THEN <<Head(s)>> \o DecodeEscapes(Tail(s))
  ELSE <<HexChar(s[2], s[3])>> \o DecodeEscapes(Drop(s, 3))

\* ECMAScript decodeURIComponent: URIError on a malformed escape.
decodeURIComponent(s) ==
  IF WellFormedEscapes(s) THEN DecodeEscapes(s) ELSE URIError

(***************************************************************************)
(* vscode.Uri, as far as the extension uses it: parse, toString, fsPath on *)
(* a POSIX host.  A Uri is a record of its five components.                *)
(***************************************************************************)
\* Length of the longest prefix of s made of escapes %XY, X and Y in
\* [0-9A-Za-z] (one match of the regular expression percentDecode uses).
RECURSIVE EscapeRun(_)
EscapeRun(s) ==
  IF Len(s) >= 3 /\ s[1] = "%" /\ s[2] \in AlphaNum /\ s[3] \in AlphaNum
  THEN 3 + EscapeRun(Drop(s, 3))
  ELSE 0

\* decodeURIComponentGraceful: what cannot be decoded is kept as written.
RECURSIVE decodeURIComponentGraceful(_)
decodeURIComponentGraceful(s) ==
  IF decodeURIComponent(s) # URIError THEN decodeURIComponent(s)
  ELSE IF Len(s) > 3
  THEN Take(s, 3) \o decodeURIComponentGraceful(Drop(s, 3))
  ELSE s

\* percentDecode of Uri.parse: every run of escapes is decoded gracefully.
RECURSIVE percentDecode(_)
percentDecode(s) ==
  IF s = <<>> THEN <<>>
  ELSE IF EscapeRun(s) > 0
  THEN decodeURIComponentGraceful(Take(s, EscapeRun(s)))
       \o percentDecode(Drop(s, EscapeRun(s)))
  ELSE <<Head(s)>> \o percentDecode(Tail(s))

\* The part of s before its first character in set, and the part from it.
Before(s, set) == Take(s, IndexOfAny(s, set) - 1)
From(s, set) == Drop(s, IndexOfAny(s, set) - 1)

\* _referenceResolution: the path of a file Uri is made absolute.
referenceResolution(scheme, path) ==
  IF scheme # <<"f", "i", "l", "e">> THEN path
  ELSE IF path = <<>> THEN <<"/">>
  ELSE IF Head(path) # "/" THEN <<"/">> \o path
  ELSE path

\* _schemeFix, not strict: an empty scheme becomes "file".
schemeFix(scheme) == IF scheme = <<>> THEN <<"f", "i", "l", "e">> ELSE scheme

\* The Uri of the five matched components, each percent-decoded.
UriOfMatch(rawSch, rawAuth, rawPath, rawQuery, rawFrag) ==
  [scheme    |-> schemeFix(rawSch),
   authority |-> percentDecode(rawAuth),
   path      |-> referenceResolution(schemeFix(rawSch), percentDecode(rawPath)),
   query     |-> percentDecode(rawQuery),
   fragment  |-> percentDecode(rawFrag)]

\* The match of (\?([^#]*))?(#(.*))? on the rest of the text.
MatchQuery(rawSch, rawAuth, rawPath, rest) ==
  IF rest # <<>> /\ Head(rest) = "?"
  THEN UriOfMatch(rawSch, rawAuth, rawPath, Before(Tail(rest), {"#"}),
                  Drop(From(Tail(rest), {"#"}), 1))
  ELSE UriOfMatch(rawSch, rawAuth, rawPath, <<>>, Drop(rest, 1))

\* The match of (//([^/?#]*))?([^?#]*) on the rest of the text.
MatchAuthority(rawSch, rest) ==
  IF StartsWith(rest, <<"/", "/">>)
  THEN MatchQuery(rawSch, Before(Drop(rest, 2), {"/", "?", "#"}),
                  Before(From(Drop(rest, 2), {"/", "?", "#"}), {"?", "#"}),
                  From(From(Drop(rest, 2), {"/", "?", "#"}), {"?", "#"}))
  ELSE MatchQuery(rawSch, <<>>, Before(rest, {"?", "#"}),
                  From(rest, {"?", "#"}))

\* Uri.parse(value), not strict: the components split as by the regular
\* expression ^(([^:/?#]+?):)?(//([^/?#]*))?([^?#]*)(\?([^#]*))?(#(.*))?.
UriParse(value) ==
  IF Before(value, {":", "/", "?", "#"}) # <<>>
     /\ From(value, {":", "/", "?", "#"}) # <<>>
     /\ Head(From(value, {":", "/", "?", "#"})) = ":"
  THEN MatchAuthority(Before(value, {":", "/", "?", "#"}),
                      Tail(From(value, {":", "/", "?", "#"})))
  ELSE MatchAuthority(<<>>, value)

\* Uri.file(path): the Uri of a file of the workspace.
UriFile(path) ==
  [scheme |-> <<"f", "i", "l", "e">>, authority |-> <<>>, path |-> path,
   query |-> <<>>, fragment |-> <<>>]

\* Encoding of a path by Uri.toString: as encodeURIComponent, "/" kept.
RECURSIVE encodePath(_)
encodePath(s) ==
  IF s = <<>> THEN <<>>
  ELSE (IF Head(s) = "/" THEN <<"/">> ELSE encodeURIComponent(<<Head(s)>>))
       \o encodePath(Tail(s))

\* uri.toString().
UriToString(uri) ==
  uri.scheme \o <<":">>
  \o (IF uri.authority # <<>> \/ uri.scheme = <<"f", "i", "l", "e">>
      THEN <<"/", "/">> ELSE <<>>)
  \o encodePath(uri.authority) \o encodePath(uri.path)
  \o (IF uri.query # <<>> THEN <<"?">> \o encodeURIComponent(uri.query)
      ELSE <<>>)
  \o (IF uri.fragment # <<>> THEN <<"#">> \o encodeURIComponent(uri.fragment)
      ELSE <<>>)

\* uri.fsPath on a POSIX host.
fsPath(uri) ==
  IF uri.authority # <<>> /\ Len(uri.path) > 1
     /\ uri.scheme = <<"f", "i", "l", "e">>
  THEN <<"/", "/">> \o uri.authority \o uri.path
  ELSE uri.path

\* path.basename(p) of node, POSIX.
basename(p) == Drop(p, LastIndexOfAny(p, {"/"}))

(***************************************************************************)
(* The virtual identifiers the extension builds for a compressed file.     *)
(***************************************************************************)
BrSuffix == <<".", "b", "r">>
JsonSuffix == <<".", "j", "s", "o", "n">>
BrotliScheme == <<"b", "r", "o", "t", "l", "i">>
CompressedJsonScheme ==
  <<"c", "o", "m", "p", "r", "e", "s", "s", "e", "d", "-", "j", "s", "o", "n">>

\* The schemes for which activate registers the CompressedContentProvider
\* (registerTextDocumentContentProvider).
CompressedScheme == <<"c", "o", "m", "p", "r", "e", "s", "s", "e", "d">>
RegisteredSchemes == {CompressedScheme}

\* `${scheme}:${path.basename(originalFileName)}?${encodeURIComponent(uri.toString())}`
VirtualUriText(scheme, originalFileName, uri) ==
  scheme \o <<":">> \o basename(originalFileName) \o <<"?">>
  \o encodeURIComponent(UriToString(uri))

\* The identifier openBrotliFile opens for the file uri.
BrotliVirtualUri(uri) ==
  LET originalFileName ==
        IF EndsWith(fsPath(uri), BrSuffix)
        THEN Take(fsPath(uri), Len(fsPath(uri)) - 3)
        ELSE fsPath(uri)
  IN  UriParse(VirtualUriText(BrotliScheme, originalFileName, uri))

\* The identifier the open command opens for the file uri: the JSON view
\* for a compressed .json file, the text view of openBrotliFile otherwise.
OpenCommandVirtualUri(uri) ==
  LET originalFileName == Take(fsPath(uri), Len(fsPath(uri)) - 3)
  IN  IF EndsWith(originalFileName, JsonSuffix)
      THEN UriParse(VirtualUriText(CompressedJsonScheme, originalFileName, uri))
      ELSE BrotliVirtualUri(uri)

\* The identifier the file watcher invalidates when the file uri changes.
WatcherVirtualUri(uri) ==
  UriParse(VirtualUriText(BrotliScheme,
                          Take(fsPath(uri), Len(fsPath(uri)) - 3), uri))

\* CompressedContentProvider.getOriginalUri; URIError when
\* decodeURIComponent throws.
getOriginalUri(uri) ==
  IF decodeURIComponent(uri.query) = URIError THEN URIError
  ELSE UriParse(decodeURIComponent(uri.query))

\* The compressed files of the workspace (paths matching **/*.br).
WorkspaceFiles ==
  { <<"/", "a", ".", "b", "r">>,
    <<"/", "b", ".", "j", "s", "o", "n", ".", "b", "r">> }

\* Every identifier the extension builds for a file of the workspace.
VirtualUris ==
  UNION { {BrotliVirtualUri(UriFile(f)), OpenCommandVirtualUri(UriFile(f)),
           WatcherVirtualUri(UriFile(f))} : f \in WorkspaceFiles }

\* The cache key of every identifier: originalUri.fsPath.
KeyTable == [u \in VirtualUris |-> fsPath(getOriginalUri(u))]
KeyOf(uri) == KeyTable[uri]

Keys == { KeyOf(u) : u \in VirtualUris }

(***************************************************************************)
(* Files, brotli and JavaScript values.                                    *)
(***************************************************************************)
\* Texts a compressed file of the model may hold once decompressed.
Payloads == {"", "v1"}

\* What a path holds on disk: nothing, brotli data of a payload, or bytes
\* that are no brotli stream.
NoFile == [exists |-> FALSE, brotli |-> FALSE, data |-> ""]
Brotli(p) == [exists |-> TRUE, brotli |-> TRUE, data |-> p]
Corrupt == [exists |-> TRUE, brotli |-> FALSE, data |-> ""]
FileStates == {NoFile, Corrupt} \cup { Brotli(p) : p \in Payloads }

\* What an awaited promise gives: a value, or the error it rejects with.
Fulfilled(v) == [ok |-> TRUE, value |-> v, error |-> ""]
Rejected(e) == [ok |-> FALSE, value |-> "", error |-> e]

\* The errors of the file system and of zlib, as `${error}` prints them.
ReadError == "Error: ENOENT: no such file or directory"
DecodeError == "Error: Decompression failed"

\* fs.promises.readFile(path) on the file state f.
readFile(f) ==
  IF f.exists THEN Fulfilled(f) ELSE Rejected(ReadError)

\* brotliDecompress(compressed) followed by decompressed.toString('utf-8').
brotliDecompress(compressed) ==
  IF compressed.brotli THEN Fulfilled(compressed.data)
  ELSE Rejected(DecodeError)

\* undefined, as Map.get gives for a key without entry.
undefined == "<undefined>"
\* Truthiness of a string or undefined: `if (cachedContent)`.
Truthy(v) == v # undefined /\ v # ""

\* Map.get, Map.set, Map.delete on a map kept as a function.
EmptyMap == [x \in {} |-> ""]
MapGet(m, k) == IF k \in DOMAIN m THEN m[k] ELSE undefined
MapSet(m, k, v) == [x \in DOMAIN m \cup {k} |-> IF x = k THEN v ELSE m[x]]
MapDelete(m, k) == [x \in DOMAIN m \ {k} |-> m[x]]

\* The texts provideTextDocumentContent returns besides file content.
PleaseWait == "Decompressing brotli file, please wait..."
OperationCancelled == "Operation cancelled"
ErrorText(error) == "Error decompressing brotli file: " \o error

(***************************************************************************)
(* State.                                                                  *)
(***************************************************************************)
Calls == 1..MaxCalls
Pending == "<pending>"

VARIABLES
  contentCache,    \* CompressedContentProvider.contentCache
  processingFiles, \* CompressedContentProvider.processingFiles
  events,          \* what onDidChangeEmitter has fired, in order
  calls,           \* the provideTextDocumentContent calls, by number
  invalidations,   \* the arguments of the invalidate calls, in order
  bursts,          \* per key in processingFiles: reads and decompressions
                   \* started since the key was added
  evicted,         \* keys invalidated and not requested since
  failed,          \* keys whose fetch failed and not requested since
  disk,            \* what the files that are followed hold, by key
  changed,         \* followed files changed and not invalidated since
  probe            \* a pure function under evaluation: arguments, result

vars ==
  <<contentCache, processingFiles, events, calls, invalidations, bursts,
    evicted, failed, disk, changed, probe>>

\* A call that was not issued yet.
IdleCall ==
  [pc |-> "idle", uri |-> <<>>, key |-> <<>>, compressed |-> NoFile,
   outcome |-> Fulfilled(Pending), route |-> "none", waitedOn |-> 0]

NoBurst == [reads |-> 0, decompressions |-> 0]

\* The fields of the provider and their environment.
providerVars ==
  <<contentCache, processingFiles, events, calls, invalidations, bursts,
    evicted, failed, disk, changed>>

\* No evaluation of a pure function is under way.
NoProbe == [op |-> "none"]

\* The provider after its construction.
ProviderInit ==
  /\ contentCache = EmptyMap
  /\ processingFiles = {}
  /\ events = <<>>
  /\ calls = [c \in Calls |-> IdleCall]
  /\ invalidations = <<>>
  /\ bursts = [k \in Keys |-> NoBurst]
  /\ evicted = {}
  /\ failed = {}
  /\ changed = {}

\* No file is followed: a file holds anything when it is read.
Init == ProviderInit /\ disk = EmptyMap /\ probe = NoProbe

\* Every file of the workspace is followed, from any content.
InitDisk == ProviderInit /\ disk \in [Keys -> FileStates] /\ probe = NoProbe

\* What the file of key k can hold when it is read.
FilesAt(k) == IF k \in DOMAIN disk THEN {disk[k]} ELSE FileStates

\* The calls between processingFiles.add(k) and their finally block.
InFlight(k) ==
  { c \in Calls : calls[c].key = k /\ calls[c].pc \in {"reading", "decompressing"} }

(***************************************************************************)
(* provideTextDocumentContent.  JavaScript runs a call from one await to   *)
(* the next without interleaving, so a call is one step per segment: its   *)
(* start (up to the first await), the continuation after readFile, the     *)
(* continuation after brotliDecompress, and the continuation of the timer  *)
(* of a waiting call.                                                      *)
(***************************************************************************)
\* `if (cachedContent)`: the cache lookup counts as a hit.
IsCacheHit(cachedContent) == Truthy(cachedContent)

\* Mutant: the in-flight check is dropped, every miss starts a fetch.
IsBeingProcessed_never(k) == FALSE

\* `this.processingFiles.has(originalUri.fsPath)`.
IsBeingProcessed(k) == k \in processingFiles

\* The catch block: the text returned for an error.
catchBlock(error) == Fulfilled(ErrorText(error))

\* Mutant: the finally block forgets the delete.
finallyBlock_keep(k) == processingFiles

\* The finally block: processingFiles after the delete.
finallyBlock(k) == processingFiles \ {k}

\* The return after a cancellation check that found the token cancelled.
cancelledReturn == Fulfilled(OperationCancelled)

\* The cache after `this.contentCache.set(originalUri.fsPath, content)`.
cacheContent(k, content) == MapSet(contentCache, k, content)

\* What a waiting call returns when its timer fires.
delayedReturn(k) ==
  IF Truthy(MapGet(contentCache, k))
  THEN Fulfilled(MapGet(contentCache, k))
  ELSE Fulfilled(PleaseWait)

\* The call c returns (or rejects with) outcome o; its locals are gone.
Settle(c, o) ==
  [calls EXCEPT ![c].pc = "done", ![c].outcome = o, ![c].compressed = NoFile]

\* Calls are numbered in the order they are issued.
IsNext(c) ==
  /\ calls[c].pc = "idle"
  /\ \A d \in Calls : d < c => calls[d].pc # "idle"

\* The count of reads and decompressions started for k while k is in
\* processingFiles, after a step that started r reads and d decompressions
\* for k: the count starts again when k leaves processingFiles.
BurstsAfter(k, r, d) ==
  [x \in Keys |->
     IF x \notin processingFiles' THEN NoBurst
     ELSE IF x = k
     THEN [reads |-> bursts[x].reads + r,
           decompressions |-> bursts[x].decompressions + d]
     ELSE bursts[x]]

\* Lines 36-63: from the call to its first await.
Start(c, uri) ==
  LET k == KeyOf(uri)
      cachedContent == MapGet(contentCache, k)
      issued == [calls[c] EXCEPT !.key = k, !.uri = uri]
  IN  /\ IsNext(c)
      /\ evicted' = evicted \ {k}
      /\ failed' = failed \ {k}
      /\ IF IsCacheHit(cachedContent)
         THEN /\ calls' = [calls EXCEPT ![c] =
                   [issued EXCEPT !.pc = "done", !.route = "hit",
                                  !.outcome = Fulfilled(cachedContent)]]
              /\ UNCHANGED <<processingFiles, bursts>>
         ELSE IF IsBeingProcessed(k)
         THEN /\ calls' = [calls EXCEPT ![c] =
                   [issued EXCEPT !.pc = "waiting", !.route = "wait",
                      !.waitedOn = IF InFlight(k) = {} THEN 0
                                   ELSE CHOOSE f \in InFlight(k) : TRUE]]
              /\ UNCHANGED <<processingFiles, bursts>>
         ELSE /\ processingFiles' = processingFiles \cup {k}
              /\ calls' = [calls EXCEPT ![c] =
                   [issued EXCEPT !.pc = "reading", !.route = "fetch"]]
              /\ UNCHANGED bursts
      /\ UNCHANGED <<contentCache, events, invalidations, disk, changed, probe>>

\* Lines 63-69: readFile settles, and the call goes on to the decompression
\* unless the read failed or the token is cancelled.  file is what the path
\* holds at that moment (files are written and removed at any time, by
\* anyone); isCancellationRequested is what the token of the caller says.
ReadFileDone(c, file, isCancellationRequested) ==
  LET k == calls[c].key
      compressed == readFile(file)
  IN  /\ calls[c].pc = "reading"
      /\ file \in FilesAt(k)
      /\ IF ~compressed.ok
         THEN /\ calls' = Settle(c, catchBlock(compressed.error))
              /\ processingFiles' = finallyBlock(k)
              /\ bursts' = BurstsAfter(k, 1, 0)
              /\ failed' = failed \cup {k}
         ELSE IF isCancellationRequested
         THEN /\ calls' = Settle(c, cancelledReturn)
              /\ processingFiles' = finallyBlock(k)
              /\ bursts' = BurstsAfter(k, 1, 0)
              /\ UNCHANGED failed
         ELSE /\ calls' = [calls EXCEPT ![c].pc = "decompressing",
                                        ![c].compressed = compressed.value]
              /\ UNCHANGED <<processingFiles, failed>>
              /\ bursts' = BurstsAfter(k, 1, 1)
      /\ UNCHANGED <<contentCache, events, invalidations, evicted, disk,
                     changed, probe>>

\* Mutant: the content is cached before the token is looked at.
DecompressDone_cacheFirst(c, isCancellationRequested) ==
  LET k == calls[c].key
      decompressed == brotliDecompress(calls[c].compressed)
  IN  /\ calls[c].pc = "decompressing"
      /\ IF ~decompressed.ok
         THEN /\ calls' = Settle(c, catchBlock(decompressed.error))
              /\ failed' = failed \cup {k}
              /\ UNCHANGED contentCache
         ELSE /\ calls' = Settle(c, IF isCancellationRequested
                                    THEN cancelledReturn
                                    ELSE Fulfilled(decompressed.value))
              /\ contentCache' = cacheContent(k, decompressed.value)
              /\ UNCHANGED failed
      /\ processingFiles' = finallyBlock(k)
      /\ bursts' = BurstsAfter(k, 0, 0)
      /\ UNCHANGED <<events, invalidations, evicted, disk, changed, probe>>

\* Lines 69-98: brotliDecompress settles; the content is cached and
\* returned unless decoding failed or the token is cancelled.
DecompressDone(c, isCancellationRequested) ==
  LET k == calls[c].key
      decompressed == brotliDecompress(calls[c].compressed)
  IN  /\ calls[c].pc = "decompressing"
      /\ IF ~decompressed.ok
         THEN /\ calls' = Settle(c, catchBlock(decompressed.error))
              /\ failed' = failed \cup {k}
              /\ UNCHANGED contentCache
         ELSE IF isCancellationRequested
         THEN /\ calls' = Settle(c, cancelledReturn)
              /\ UNCHANGED <<contentCache, failed>>
         ELSE /\ calls' = Settle(c, Fulfilled(decompressed.value))
              /\ contentCache' = cacheContent(k, decompressed.value)
              /\ UNCHANGED failed
      /\ processingFiles' = finallyBlock(k)
      /\ bursts' = BurstsAfter(k, 0, 0)
      /\ UNCHANGED <<events, invalidations, evicted, disk, changed, probe>>

\* Mutant: the waiting call runs the finally block when it returns.
TimerFire_finally(c) ==
  /\ calls[c].pc = "waiting"
  /\ calls' = Settle(c, delayedReturn(calls[c].key))
  /\ processingFiles' = finallyBlock(calls[c].key)
  /\ UNCHANGED <<contentCache, events, invalidations, bursts,
                 evicted, failed, disk, changed, probe>>

\* Lines 47-53: the 100 ms timer of a waiting call fires.
TimerFire(c) ==
  /\ calls[c].pc = "waiting"
  /\ calls' = Settle(c, delayedReturn(calls[c].key))
  /\ UNCHANGED <<contentCache, processingFiles, events, invalidations, bursts,
                 evicted, failed, disk, changed, probe>>

(***************************************************************************)
(* invalidate, and the environment.                                        *)
(***************************************************************************)
\* Mutant: invalidate also drops the in-flight marker of the key.
invalidate_cancelling(uri) ==
  /\ contentCache' = MapDelete(contentCache, KeyOf(uri))
  /\ events' = Append(events, uri)
  /\ processingFiles' = processingFiles \ {KeyOf(uri)}

\* Mutant: invalidate fires the event only when it removed an entry.
invalidate_onlyIfCached(uri) ==
  /\ contentCache' = MapDelete(contentCache, KeyOf(uri))
  /\ events' = IF KeyOf(uri) \in DOMAIN contentCache
                THEN Append(events, uri) ELSE events
  /\ UNCHANGED processingFiles

\* Mutant: invalidate empties the cache.
invalidate_clearAll(uri) ==
  /\ contentCache' = EmptyMap
  /\ events' = Append(events, uri)
  /\ UNCHANGED processingFiles

\* Lines 121-125: the provider's fields after invalidate(uri).
invalidate(uri) ==
  /\ contentCache' = MapDelete(contentCache, KeyOf(uri))
  /\ events' = Append(events, uri)
  /\ UNCHANGED processingFiles

\* A call of invalidate(uri), by the file watcher or any other caller.
Invalidate(uri) ==
  /\ Len(invalidations) < MaxInvalidates
  /\ invalidate(uri)
  /\ invalidations' = Append(invalidations, uri)
  /\ evicted' = evicted \cup {KeyOf(uri)}
  /\ changed' = changed \ {KeyOf(uri)}
  /\ UNCHANGED <<calls, bursts, failed, disk, probe>>

Next ==
  \/ \E c \in Calls, uri \in VirtualUris : Start(c, uri)
  \/ \E c \in Calls, file \in FileStates, cancelled \in BOOLEAN :
       ReadFileDone(c, file, cancelled)
  \/ \E c \in Calls, cancelled \in BOOLEAN : DecompressDone(c, cancelled)
  \/ \E c \in Calls : TimerFire(c)
  \/ \E uri \in VirtualUris : Invalidate(uri)

Spec == Init /\ [][Next]_vars

\* The followed file of key k is rewritten, removed or created.
FileChange(k, f) ==
  /\ k \in DOMAIN disk
  /\ f # disk[k]
  /\ disk' = [disk EXCEPT ![k] = f]
  /\ changed' = changed \cup {k}
  /\ UNCHANGED <<contentCache, processingFiles, events, calls, invalidations,
                 bursts, evicted, failed, probe>>

\* The provider with the files of the workspace followed.
NextDisk ==
  \/ Next
  \/ \E k \in Keys, f \in FileStates : FileChange(k, f)

SpecDisk == InitDisk /\ [][NextDisk]_vars

(***************************************************************************)
(* The identifiers of a compressed file, built and mapped back: the        *)
(* location of a file is given to one of the three places that build a     *)
(* virtual identifier, and getOriginalUri is applied to the result.        *)
(***************************************************************************)
\* The characters of the file names: a letter, digits, and the characters
\* that an identifier escapes.
NameChars == {"a", "4", "1", "%", "?", "#", " "}

\* The file names of at most n characters.
RECURSIVE NamesUpTo(_)
NamesUpTo(n) ==
  IF n = 0 THEN {<<>>}
  ELSE NamesUpTo(n - 1)
       \cup { Append(s, ch) : s \in NamesUpTo(n - 1), ch \in NameChars }

\* The locations of compressed files: vscode.Uri.file of a path **/*.br.
Locations ==
  { UriFile(<<"/">> \o n \o BrSuffix) : n \in NamesUpTo(MaxNameLen) \ {<<>>} }
  \cup { UriFile(f) : f \in WorkspaceFiles }

\* The places that build a virtual identifier, and what each builds.
Builders == {"openBrotliFile", "openCompressedFile", "watcher"}
BuildVirtualUri(builder, uri) ==
  CASE builder = "openBrotliFile" -> BrotliVirtualUri(uri)
    [] builder = "openCompressedFile" -> OpenCommandVirtualUri(uri)
    [] builder = "watcher" -> WatcherVirtualUri(uri)

InitUri ==
  /\ ProviderInit /\ disk = EmptyMap
  /\ probe \in { [op |-> "location", location |-> u] : u \in Locations }

\* A builder makes the virtual identifier of the location.
Build(builder) ==
  /\ probe.op = "location"
  /\ probe' = [op |-> builder, location |-> probe.location,
               virtual |-> BuildVirtualUri(builder, probe.location)]
  /\ UNCHANGED providerVars

\* getOriginalUri maps the virtual identifier back.
MapBack ==
  /\ probe.op \in Builders
  /\ probe' = [op |-> "getOriginalUri", location |-> probe.location,
               virtual |-> probe.virtual,
               original |-> getOriginalUri(probe.virtual)]
  /\ UNCHANGED providerVars

\* A .br file that the open command has opened changes on disk: the
\* callback of watcher.onDidChange builds the identifier it invalidates.
OnDidChange ==
  /\ probe.op = "openCompressedFile"
  /\ EndsWith(fsPath(probe.location), BrSuffix)
  /\ probe' = [op |-> "onDidChange", location |-> probe.location,
               opened |-> probe.virtual,
               invalidated |-> WatcherVirtualUri(probe.location)]
  /\ UNCHANGED providerVars

\* Lines 36-37: provideTextDocumentContent is called with the identifier
\* and maps it back, outside any try block: an exception of
\* decodeURIComponent ends the call, its promise rejects.
ProvideTextDocumentContent ==
  /\ probe.op \in Builders
  /\ probe' = [op |-> "provideTextDocumentContent",
               location |-> probe.location,
               virtual |-> probe.virtual,
               outcome |->
                 IF decodeURIComponent(probe.virtual.query) = URIError
                 THEN Rejected("URIError: URI malformed")
                 ELSE Fulfilled(Pending)]
  /\ UNCHANGED providerVars

NextUri ==
  \/ \E builder \in Builders : Build(builder)
  \/ MapBack
  \/ OnDidChange
  \/ ProvideTextDocumentContent

SpecUri == InitUri /\ [][NextUri]_vars

(***************************************************************************)
(* The classifier of src/src/utils/language-detection.ts.  A language id   *)
(* is a string; file names and contents are text.                          *)
(***************************************************************************)
\* EXTENSION_LANGUAGE_MAP.
EXTENSION_LANGUAGE_MAP ==
  <<".", "j", "s">>                           :> "javascript" @@
  <<".", "j", "s", "x">>                      :> "javascriptreact" @@
  <<".", "t", "s">>                           :> "typescript" @@
  <<".", "t", "s", "x">>                      :> "typescriptreact" @@
  <<".", "h", "t", "m", "l">>                 :> "html" @@
  <<".", "h", "t", "m">>                      :> "html" @@
  <<".", "c", "s", "s">>                      :> "css" @@
  <<".", "s", "c", "s", "s">>                 :> "scss" @@
  <<".", "l", "e", "s", "s">>                 :> "less" @@
  <<".", "j", "s", "o", "n">>                 :> "json" @@
  <<".", "j", "s", "o", "n", "c">>            :> "jsonc" @@
  <<".", "x", "m", "l">>                      :> "xml" @@
  <<".", "s", "v", "g">>                      :> "xml" @@
  <<".", "y", "a", "m", "l">>                 :> "yaml" @@
  <<".", "y", "m", "l">>                      :> "yaml" @@
  <<".", "m", "d">>                           :> "markdown" @@
  <<".", "p", "y">>                           :> "python" @@
  <<".", "j", "a", "v", "a">>                 :> "java" @@
  <<".", "c">>                                :> "c" @@
  <<".", "c", "p", "p">>                      :> "cpp" @@
  <<".", "c", "s">>                           :> "csharp" @@
  <<".", "g", "o">>                           :> "go" @@
  <<".", "r", "b">>                           :> "ruby" @@
  <<".", "r", "s">>                           :> "rust" @@
  <<".", "s", "h">>                           :> "shellscript" @@
  <<".", "b", "a", "s", "h">>                 :> "shellscript" @@
  <<".", "t", "x", "t">>                      :> "plaintext" @@
  <<".", "l", "o", "g">>                      :> "log"

\* specialFiles of detectLanguageFromFileName.
specialFiles ==
  <<"d", "o", "c", "k", "e", "r", "f", "i", "l", "e">> :> "dockerfile" @@
  <<"m", "a", "k", "e", "f", "i", "l", "e">>  :> "makefile" @@
  <<"j", "e", "n", "k", "i", "n", "s", "f", "i", "l", "e">> :> "groovy" @@
  <<"v", "a", "g", "r", "a", "n", "t", "f", "i", "l", "e">> :> "ruby" @@
  <<"p", "a", "c", "k", "a", "g", "e", ".", "j", "s", "o", "n">> :> "json" @@
  <<"t", "s", "c", "o", "n", "f", "i", "g", ".", "j", "s", "o", "n">> :> "jsonc"

\* What every object inherits from Object.prototype under a name that is
\* its own lower case: the values of obj.constructor and obj.__proto__.
ObjectPrototype ==
  <<"c", "o", "n", "s", "t", "r", "u", "c", "t", "o", "r">> :> "<function Object>" @@
  <<"_", "_", "p", "r", "o", "t", "o", "_", "_">> :> "<Object.prototype>"

\* `key in obj` and `obj[key]` for an object literal with the own
\* properties own: the properties inherited from Object.prototype count.
In(key, own) == key \in DOMAIN own \/ key \in DOMAIN ObjectPrototype
Get(own, key) ==
  IF key \in DOMAIN own THEN own[key]
  ELSE IF key \in DOMAIN ObjectPrototype THEN ObjectPrototype[key]
  ELSE undefined

\* String.prototype.toLowerCase.
UpperCase ==
  <<"A", "B", "C", "D", "E", "F", "G", "H", "I", "J", "K", "L", "M", "N", "O", "P", "Q", "R", "S", "T", "U", "V", "W", "X", "Y", "Z">>
LowerCase ==
  <<"a", "b", "c", "d", "e", "f", "g", "h", "i", "j", "k", "l", "m", "n", "o", "p", "q", "r", "s", "t", "u", "v", "w", "x", "y", "z">>
toLowerChar(ch) ==
  IF \E i \in 1..Len(UpperCase) : UpperCase[i] = ch
  THEN LowerCase[CHOOSE i \in 1..Len(UpperCase) : UpperCase[i] = ch]
  ELSE ch
toLowerCase(s) == [i \in 1..Len(s) |-> toLowerChar(s[i])]

\* path.extname of node, POSIX: the base name from its last "." on, empty
\* when there is no "." or the last "." is its first character, and for "..".
extnameAt(base, dot) ==
  IF dot <= 1 \/ base = <<".", ".">> THEN <<>> ELSE Drop(base, dot - 1)
extname(p) == extnameAt(basename(p), LastIndexOfAny(basename(p), {"."}))

\* The tag of a special base name, `plaintext` for any other.
specialFileLanguage(baseName) ==
  IF In(baseName, specialFiles) THEN Get(specialFiles, baseName)
  ELSE "plaintext"

\* The tag of the extension when the table has it, of the base name
\* otherwise.
languageOfExtension(fileName, extension) ==
  IF extension # <<>> /\ In(extension, EXTENSION_LANGUAGE_MAP)
  THEN Get(EXTENSION_LANGUAGE_MAP, extension)
  ELSE specialFileLanguage(toLowerCase(basename(fileName)))

\* detectLanguageFromFileName(fileName).
detectLanguageFromFileName(fileName) ==
  IF fileName = <<>> THEN "plaintext"
  ELSE languageOfExtension(fileName, toLowerCase(extname(fileName)))

(***************************************************************************)
(* detectLanguageFromFileName applied to a file name.                      *)
(***************************************************************************)
\* The file names: a directory, a stem and an extension, the extension
\* one of the table (as written or in upper case) or another.
Dirs == {<<>>, <<"/", "w", "/">>, <<"d", "i", "r", ".", "d", "/">>}
Stems ==
  { <<>>, <<"a">>, <<"R", "E", "A", "D", "M", "E">>,
   <<"D", "o", "c", "k", "e", "r", "f", "i", "l", "e">>,
   <<"M", "A", "K", "E", "F", "I", "L", "E">>,
   <<"j", "e", "n", "k", "i", "n", "s", "f", "i", "l", "e">>,
   <<"V", "a", "g", "r", "a", "n", "t", "f", "i", "l", "e">>,
   <<"p", "a", "c", "k", "a", "g", "e">>,
   <<"t", "s", "c", "o", "n", "f", "i", "g">>,
   <<"c", "o", "n", "s", "t", "r", "u", "c", "t", "o", "r">>,
   <<"_", "_", "p", "r", "o", "t", "o", "_", "_">>,
   <<".", "b", "a", "s", "h", "r", "c">>, <<".">>}
OtherExtensions == {<<>>, <<".">>, <<".", "J", "S">>, <<".", "T", "s", "x">>, <<".", "u", "n", "k", "n", "o", "w", "n">>, <<".", "h">>, <<".", "b", "r">>}
toUpperCase(s) ==
  [i \in 1..Len(s) |->
     IF \E j \in 1..Len(LowerCase) : LowerCase[j] = s[i]
     THEN UpperCase[CHOOSE j \in 1..Len(LowerCase) : LowerCase[j] = s[i]]
     ELSE s[i]]
Extensions ==
  DOMAIN EXTENSION_LANGUAGE_MAP
  \cup { toUpperCase(e) : e \in DOMAIN EXTENSION_LANGUAGE_MAP }
  \cup OtherExtensions
FileNames == { d \o s \o e : d \in Dirs, s \in Stems, e \in Extensions }

InitFileName ==
  /\ ProviderInit /\ disk = EmptyMap
  /\ probe \in { [op |-> "fileName", fileName |-> f] : f \in FileNames }

\* detectLanguageFromFileName(probe.fileName) returns.
DetectFromFileName ==
  /\ probe.op = "fileName"
  /\ probe' = [op |-> "detectLanguageFromFileName",
               fileName |-> probe.fileName,
               language |-> detectLanguageFromFileName(probe.fileName)]
  /\ UNCHANGED providerVars

NextFileName == DetectFromFileName

SpecFileName == InitFileName /\ [][NextFileName]_vars

(***************************************************************************)
(* detectLanguageFromContent of src/src/utils/language-detection.ts.       *)
(***************************************************************************)
\* String.prototype.includes.
Includes(s, p) ==
  \E i \in 0..(Len(s) - Len(p)) : SubSeq(s, i + 1, i + Len(p)) = p

\* String.prototype.trim: the white space at both ends is dropped.
WhiteSpace == {" ", "\t", "\n", "\r"}
RECURSIVE trimStart(_)
trimStart(s) ==
  IF s # <<>> /\ Head(s) \in WhiteSpace THEN trimStart(Tail(s)) ELSE s
RECURSIVE trimEnd(_)
trimEnd(s) ==
  IF s # <<>> /\ s[Len(s)] \in WhiteSpace
  THEN trimEnd(SubSeq(s, 1, Len(s) - 1)) ELSE s
trim(s) == trimEnd(trimStart(s))

\* JSON.parse, as far as it accepts or throws: a parser of the JSON
\* grammar.  Each operator takes the text and the index where its part
\* starts, and gives the index after the part, 0 when the text is no JSON.
Digits == {"0", "1", "2", "3", "4", "5", "6", "7", "8", "9"}
RECURSIVE SkipWs(_, _)
SkipWs(s, i) ==
  IF i = 0 THEN 0
  ELSE IF i <= Len(s) /\ s[i] \in WhiteSpace THEN SkipWs(s, i + 1)
  ELSE i

\* Inside a string, from index j: up to the closing quote.  A control
\* character (below U+0020) ends the parse.
ControlChars == {"\t", "\n", "\r", "<NUL>", "<control>"}
RECURSIVE StringEnd(_, _)
StringEnd(s, j) ==
  IF j > Len(s) \/ s[j] \in ControlChars THEN 0
  ELSE IF s[j] = "\"" THEN j + 1
  ELSE IF s[j] = "\\"
  THEN (IF j + 1 <= Len(s)
           /\ s[j + 1] \in {"\"", "\\", "/", "b", "f", "n", "r", "t"}
        THEN StringEnd(s, j + 2) ELSE 0)
  ELSE StringEnd(s, j + 1)

RECURSIVE DigitsEnd(_, _)
DigitsEnd(s, j) ==
  IF j <= Len(s) /\ s[j] \in Digits THEN DigitsEnd(s, j + 1) ELSE j

\* A number: -? int frac? exp?.
ExpEnd(s, k) ==
  IF k = 0 THEN 0
  ELSE IF k > Len(s) \/ s[k] \notin {"e", "E"} THEN k
  ELSE IF k + 1 <= Len(s) /\ s[k + 1] \in {"+", "-"}
  THEN (IF DigitsEnd(s, k + 2) = k + 2 THEN 0 ELSE DigitsEnd(s, k + 2))
  ELSE (IF DigitsEnd(s, k + 1) = k + 1 THEN 0 ELSE DigitsEnd(s, k + 1))
FracEnd(s, k) ==
  IF k = 0 THEN 0
  ELSE IF k > Len(s) \/ s[k] # "." THEN k
  ELSE IF DigitsEnd(s, k + 1) = k + 1 THEN 0
  ELSE DigitsEnd(s, k + 1)
IntEnd(s, i) ==
  IF i > Len(s) \/ s[i] \notin Digits THEN 0
  ELSE IF s[i] = "0" THEN i + 1
  ELSE DigitsEnd(s, i)
NumberEnd(s, i) ==
  IF s[i] = "-" THEN ExpEnd(s, FracEnd(s, IntEnd(s, i + 1)))
  ELSE ExpEnd(s, FracEnd(s, IntEnd(s, i)))

\* true, false, null.
LiteralEnd(s, i) ==
  IF StartsWith(Drop(s, i - 1), <<"t", "r", "u", "e">>) THEN i + 4
  ELSE IF StartsWith(Drop(s, i - 1), <<"f", "a", "l", "s", "e">>) THEN i + 5
  ELSE IF StartsWith(Drop(s, i - 1), <<"n", "u", "l", "l">>) THEN i + 4
  ELSE 0

RECURSIVE JsonValue(_, _)
RECURSIVE Members(_, _)
RECURSIVE Elements(_, _)

\* After a member of an object, or an element of an array: a comma and
\* the next one, or the closing bracket.
AfterMember(s, k) ==
  IF k = 0 \/ k > Len(s) THEN 0
  ELSE IF s[k] = "," THEN Members(s, SkipWs(s, k + 1))
  ELSE IF s[k] = "}" THEN k + 1
  ELSE 0
AfterElement(s, k) ==
  IF k = 0 \/ k > Len(s) THEN 0
  ELSE IF s[k] = "," THEN Elements(s, SkipWs(s, k + 1))
  ELSE IF s[k] = "]" THEN k + 1
  ELSE 0

\* After the key of a member: a colon and a value.
AfterKey(s, k) ==
  IF k = 0 \/ k > Len(s) \/ s[k] # ":" THEN 0
  ELSE AfterMember(s, SkipWs(s, JsonValue(s, SkipWs(s, k + 1))))

Members(s, j) ==
  IF j > Len(s) \/ s[j] # "\"" THEN 0
  ELSE AfterKey(s, SkipWs(s, StringEnd(s, j + 1)))

Elements(s, j) == AfterElement(s, SkipWs(s, JsonValue(s, j)))

\* After the opening bracket of an object, of an array.
ObjectBody(s, j) ==
  IF j <= Len(s) /\ s[j] = "}" THEN j + 1 ELSE Members(s, j)
ArrayBody(s, j) ==
  IF j <= Len(s) /\ s[j] = "]" THEN j + 1 ELSE Elements(s, j)

JsonValue(s, i) ==
  IF i = 0 \/ i > Len(s) THEN 0
  ELSE IF s[i] = "{" THEN ObjectBody(s, SkipWs(s, i + 1))
  ELSE IF s[i] = "[" THEN ArrayBody(s, SkipWs(s, i + 1))
  ELSE IF s[i] = "\"" THEN StringEnd(s, i + 1)
  ELSE IF s[i] = "-" \/ s[i] \in Digits THEN NumberEnd(s, i)
  ELSE LiteralEnd(s, i)

\* JSON.parse(text) does not throw.
JsonParses(text) ==
  SkipWs(text, JsonValue(text, SkipWs(text, 1))) = Len(text) + 1

\* jsPatterns and tsPatterns.
jsPatterns ==
  { <<"f", "u", "n", "c", "t", "i", "o", "n", " ">>,
   <<"c", "o", "n", "s", "t", " ">>, <<"v", "a", "r", " ">>,
   <<"l", "e", "t", " ">>, <<"=", ">">>,
   <<"i", "m", "p", "o", "r", "t", " ">>,
   <<"e", "x", "p", "o", "r", "t", " ">>}

tsPatterns ==
  { <<"i", "n", "t", "e", "r", "f", "a", "c", "e", " ">>,
   <<"c", "l", "a", "s", "s", " ">>, <<"e", "n", "u", "m", " ">>,
   <<"n", "a", "m", "e", "s", "p", "a", "c", "e", " ">>,
   <<"t", "y", "p", "e", " ">>}

\* The number of patterns that content.includes finds.
jsMatches(content) ==
  Cardinality({ pattern \in jsPatterns : Includes(content, pattern) })
tsMatches(content) ==
  Cardinality({ pattern \in tsPatterns : Includes(content, pattern) })

\* The markers of the XML/HTML check.
XmlDeclaration == <<"<", "?", "x", "m", "l">>
DoctypeHtml == <<"<", "!", "D", "O", "C", "T", "Y", "P", "E", " ", "h", "t", "m", "l">>
HtmlTag == <<"<", "h", "t", "m", "l">>

\* Mutant: the JavaScript count is tested before the TypeScript count.
tokenLanguage_jsFirst(content) ==
  IF jsMatches(content) > 1 THEN "javascript"
  ELSE IF tsMatches(content) > 0 THEN "typescript"
  ELSE "plaintext"

\* Lines 105-123: the JavaScript/TypeScript check.
tokenLanguage(content) ==
  IF tsMatches(content) > 0 THEN "typescript"
  ELSE IF jsMatches(content) > 1 THEN "javascript"
  ELSE "plaintext"

\* `{...}` or `[...]`: the condition of the JSON check.
JsonDelimited(t) ==
  \/ StartsWith(t, <<"{">>) /\ EndsWith(t, <<"}">>)
  \/ StartsWith(t, <<"[">>) /\ EndsWith(t, <<"]">>)

\* Mutant: the token check runs before the JSON check.
contentLanguage_tokensFirst(content, trimmedContent) ==
  IF \/ StartsWith(trimmedContent, XmlDeclaration)
     \/ Includes(trimmedContent, DoctypeHtml)
     \/ StartsWith(trimmedContent, HtmlTag)
  THEN (IF \/ Includes(trimmedContent, DoctypeHtml)
           \/ StartsWith(trimmedContent, HtmlTag)
        THEN "html" ELSE "xml")
  ELSE IF tokenLanguage(content) # "plaintext" THEN tokenLanguage(content)
  ELSE IF JsonDelimited(trimmedContent) /\ JsonParses(trimmedContent)
  THEN "json"
  ELSE "plaintext"

\* Lines 86-123: the checks on the trimmed content, in their order.
contentLanguage(content, trimmedContent) ==
  IF \/ StartsWith(trimmedContent, XmlDeclaration)
     \/ Includes(trimmedContent, DoctypeHtml)
     \/ StartsWith(trimmedContent, HtmlTag)
  THEN (IF \/ Includes(trimmedContent, DoctypeHtml)
           \/ StartsWith(trimmedContent, HtmlTag)
        THEN "html" ELSE "xml")
  ELSE IF JsonDelimited(trimmedContent) /\ JsonParses(trimmedContent)
  THEN "json"
  ELSE tokenLanguage(content)

\* detectLanguageFromContent(content).
detectLanguageFromContent(content) ==
  IF content = <<>> THEN "plaintext"
  ELSE contentLanguage(content, trim(content))

(***************************************************************************)
(* detectLanguageFromContent applied to a content.                         *)
(***************************************************************************)
\* The pieces a content is made of.
Pieces ==
  { <<" ">>, <<"<", "?", "x", "m", "l", " ">>,
   <<"<", "!", "D", "O", "C", "T", "Y", "P", "E", " ", "h", "t", "m", "l", ">">>,
   <<"<", "h", "t", "m", "l", ">">>, <<"{">>, <<"}">>, <<"[">>, <<"]">>,
   <<"\"", "k", "\"", ":", "1">>,
   <<"\"", "k", "\"", ":", "\"", "c", "o", "n", "s", "t", " ", "l", "e", "t", " ", "\"">>,
   <<"\"", "k", "\"", ":", "\"", "t", "y", "p", "e", " ", "\"">>, <<"\"", "<", "!", "D", "O", "C", "T", "Y", "P", "E", " ", "h", "t", "m", "l", ">", "\"">>,
   <<"1">>,
   <<"\"", "=", ">", "\"">>, <<"c", "o", "n", "s", "t", " ">>,
   <<"l", "e", "t", " ">>, <<"c", "l", "a", "s", "s", " ">>, <<"x">>}

\* The contents: at most n pieces, one after the other.
RECURSIVE ContentsUpTo(_)
ContentsUpTo(n) ==
  IF n = 0 THEN {<<>>}
  ELSE ContentsUpTo(n - 1)
       \cup { c \o p : c \in ContentsUpTo(n - 1), p \in Pieces }
Contents == ContentsUpTo(MaxPieces)

InitContent ==
  /\ ProviderInit /\ disk = EmptyMap
  /\ probe \in { [op |-> "content", content |-> c] : c \in Contents }

\* detectLanguageFromContent(probe.content) returns.
DetectFromContent ==
  /\ probe.op = "content"
  /\ probe' = [op |-> "detectLanguageFromContent",
               content |-> probe.content,
               language |-> detectLanguageFromContent(probe.content)]
  /\ UNCHANGED providerVars

NextContent == DetectFromContent

SpecContent == InitContent /\ [][NextContent]_vars

(***************************************************************************)
(* getLanguageId of src/src/utils/language-detection.ts.                   *)
(***************************************************************************)
\* The optional parameter content: left out, or a text.
NoContent == [given |-> FALSE]
Given(text) == [given |-> TRUE, text |-> text]

\* getLanguageId(fileName, content).
getLanguageId(fileName, content) ==
  IF /\ Truthy(detectLanguageFromFileName(fileName))
     /\ detectLanguageFromFileName(fileName) # "plaintext"
  THEN detectLanguageFromFileName(fileName)
  ELSE IF /\ content.given
          /\ content.text # <<>>
          /\ Truthy(detectLanguageFromContent(content.text))
          /\ detectLanguageFromContent(content.text) # "plaintext"
  THEN detectLanguageFromContent(content.text)
  ELSE "plaintext"

(***************************************************************************)
(* BrotliEditorProvider of src/unnamed/part_001: the language and the      *)
(* binary flag that resolveCustomEditor computes.                          *)
(***************************************************************************)
\* The first bytes of the buffer that isBinaryContent looks at, the
\* shortest content that detectLanguageFromContent looks at.
SampleSize == 1000
MinContentLength == 50

\* byte === 0 || (byte < 32 && ![9, 10, 13].includes(byte)) || byte >= 127
NonPrintable(byte) ==
  byte = 0 \/ (byte < 32 /\ byte \notin {9, 10, 13}) \/ byte >= 127

Min(a, b) == IF a <= b THEN a ELSE b

\* The number of non-printable bytes among the first
\* Math.min(buffer.length, 1000).
nonPrintable(buffer) ==
  Cardinality({ i \in 1..Min(Len(buffer), SampleSize) :
                  NonPrintable(buffer[i]) })

\* Mutant: a tenth of the sample is binary already.
isBinaryContent_atLeast(buffer) ==
  10 * nonPrintable(buffer) >= Min(Len(buffer), SampleSize)

\* isBinaryContent(buffer): nonPrintable > Math.min(length, 1000) * 0.1.
\* The double 0.1 exceeds 1/10 by less than 1e-17, and a tenth of an
\* integer up to 1000 that is no integer differs from the integers by 0.1
\* at least, so for integers n and s <= 1000 the comparison of doubles
\* n > s * 0.1 is 10 * n > s.
isBinaryContent(buffer) ==
  10 * nonPrintable(buffer) > Min(Len(buffer), SampleSize)

\* The characters of the codes 32 to 126 (the grave accent by its name).
Ascii ==
  << " ", "!", "\"", "#", "$", "%", "&", "'", "(", ")", "*", "+", ",", "-",
    ".", "/", "0", "1", "2", "3", "4", "5", "6", "7", "8", "9", ":", ";", "<",
    "=", ">", "?", "@", "A", "B", "C", "D", "E", "F", "G", "H", "I", "J", "K",
    "L", "M", "N", "O", "P", "Q", "R", "S", "T", "U", "V", "W", "X", "Y", "Z",
    "[", "\\", "]", "^", "_", "<grave>", "a", "b", "c", "d", "e", "f", "g", "h",
    "i", "j", "k", "l", "m", "n", "o", "p", "q", "r", "s", "t", "u", "v", "w",
    "x", "y", "z", "{", "|", "}", "~">>

\* buffer.toString('utf-8') for the bytes of the buffers here: the ASCII
\* characters, and the replacement character for a byte that is no UTF-8.
charOf(byte) ==
  IF byte \in 32..126 THEN Ascii[byte - 31]
  ELSE IF byte = 9 THEN "\t"
  ELSE IF byte = 10 THEN "\n"
  ELSE IF byte = 13 THEN "\r"
  ELSE IF byte = 0 THEN "<NUL>"
  ELSE IF byte < 32 THEN "<control>"
  ELSE IF byte = 127 THEN "<DEL>"
  ELSE "<U+FFFD>"
toStringUtf8(buffer) == [i \in 1..Len(buffer) |-> charOf(buffer[i])]

\* The mapping of getLanguageForExtension.
mapping ==
  <<".", "j", "s">> :> "javascript" @@
  <<".", "t", "s">> :> "typescript" @@
  <<".", "t", "s", "x">> :> "typescriptreact" @@
  <<".", "j", "s", "x">> :> "javascriptreact" @@
  <<".", "j", "s", "o", "n">> :> "json" @@
  <<".", "h", "t", "m", "l">> :> "html" @@
  <<".", "h", "t", "m">> :> "html" @@
  <<".", "c", "s", "s">> :> "css" @@
  <<".", "s", "c", "s", "s">> :> "scss" @@
  <<".", "l", "e", "s", "s">> :> "less" @@
  <<".", "m", "d">> :> "markdown" @@
  <<".", "x", "m", "l">> :> "xml" @@
  <<".", "s", "v", "g">> :> "xml" @@
  <<".", "p", "y">> :> "python" @@
  <<".", "j", "a", "v", "a">> :> "java" @@
  <<".", "c">> :> "c" @@
  <<".", "h">> :> "c" @@
  <<".", "c", "p", "p">> :> "cpp" @@
  <<".", "h", "p", "p">> :> "cpp" @@
  <<".", "c", "s">> :> "csharp" @@
  <<".", "g", "o">> :> "go" @@
  <<".", "r", "s">> :> "rust" @@
  <<".", "r", "b">> :> "ruby" @@
  <<".", "p", "h", "p">> :> "php" @@
  <<".", "s", "h">> :> "shell" @@
  <<".", "y", "a", "m", "l">> :> "yaml" @@
  <<".", "y", "m", "l">> :> "yaml" @@
  <<".", "t", "x", "t">> :> "plaintext" @@
  <<".", "s", "q", "l">> :> "sql" @@
  <<".", "s", "w", "i", "f", "t">> :> "swift" @@
  <<".", "d", "a", "r", "t">> :> "dart" @@
  <<".", "k", "o", "t", "l", "i", "n">> :> "kotlin" @@
  <<".", "l", "u", "a">> :> "lua" @@
  <<".", "r">> :> "r" @@
  <<".", "g", "r", "a", "p", "h", "q", "l">> :> "graphql" @@
  <<".", "v", "u", "e">> :> "vue" @@
  <<".", "d", "o", "c", "k", "e", "r", "f", "i", "l", "e">> :> "dockerfile" @@
  <<".", "t", "f">> :> "terraform"

\* getLanguageForExtension(ext): mapping[ext.toLowerCase()] || 'plaintext'.
getLanguageForExtension(ext) ==
  IF Truthy(Get(mapping, toLowerCase(ext)))
  THEN Get(mapping, toLowerCase(ext))
  ELSE "plaintext"

\* The markers of the editor's detectLanguageFromContent.
DoctypeHtmlTag == <<"<", "!", "D", "O", "C", "T", "Y", "P", "E", " ", "h", "t", "m", "l", ">">>
FunctionToken == <<"f", "u", "n", "c", "t", "i", "o", "n", " ">>
VarToken == <<"v", "a", "r", " ">>
ImportReact == <<"i", "m", "p", "o", "r", "t", " ", "R", "e", "a", "c", "t">>
FromReact == <<"f", "r", "o", "m", " ", "\"", "r", "e", "a", "c", "t", "\"">>
IncludeDirective == <<"#", "i", "n", "c", "l", "u", "d", "e", " ", "<">>

\* BrotliEditorProvider.detectLanguageFromContent(content): a language, or
\* undefined.
editorDetectLanguageFromContent(content) ==
  IF content = <<>> \/ Len(content) < MinContentLength THEN undefined
  ELSE IF StartsWith(trimStart(content), XmlDeclaration) THEN "xml"
  ELSE IF /\ StartsWith(trimStart(content), <<"{">>)
          /\ EndsWith(trimEnd(content), <<"}">>)
  THEN (IF JsonParses(content) THEN "json" ELSE undefined)
  ELSE IF Includes(content, DoctypeHtmlTag) \/ Includes(content, HtmlTag)
  THEN "html"
  ELSE IF Includes(content, FunctionToken) /\ Includes(content, VarToken)
  THEN "javascript"
  ELSE IF Includes(content, ImportReact) \/ Includes(content, FromReact)
  THEN "javascriptreact"
  ELSE IF Includes(content, IncludeDirective) THEN "cpp"
  ELSE undefined

\* path.basename(p, ext) of an absolute path p.
basenameWithout(p, ext) ==
  IF EndsWith(basename(p), ext) /\ basename(p) # ext
  THEN Take(basename(p), Len(basename(p)) - Len(ext))
  ELSE basename(p)

\* Lines 69-73: decompressedText.
decompressedText(decompressedBuffer) ==
  IF ~isBinaryContent(decompressedBuffer)
  THEN toStringUtf8(decompressedBuffer)
  ELSE <<>>

\* Lines 68-84: language.
languageOf(originalExt, text) ==
  IF originalExt = <<>> \/ getLanguageForExtension(originalExt) = "plaintext"
  THEN (IF Truthy(editorDetectLanguageFromContent(text))
        THEN editorDetectLanguageFromContent(text)
        ELSE getLanguageForExtension(originalExt))
  ELSE getLanguageForExtension(originalExt)

\* What resolveCustomEditor shows for the file fsPath whose decompressed
\* bytes are decompressedBuffer: the hex view or the text view, and the
\* language it has computed.
resolveCustomEditor(path, decompressedBuffer) ==
  [binary |-> isBinaryContent(decompressedBuffer),
   language |-> languageOf(extname(basenameWithout(path, BrSuffix)),
                           decompressedText(decompressedBuffer))]

(***************************************************************************)
(* getLanguageId and resolveCustomEditor applied to a file.                *)
(***************************************************************************)
UtilityFileNames ==
  { <<>>, <<"a">>, <<"n", "o", "t", "e", "s", ".", "m", "d">>,
   <<"a", ".", "t", "x", "t">>,
   <<"a", ".", "u", "n", "k", "n", "o", "w", "n">>,
   <<"D", "o", "c", "k", "e", "r", "f", "i", "l", "e">>,
   <<"c", "o", "n", "s", "t", "r", "u", "c", "t", "o", "r">>,
   <<"a", ".", "J", "S", "O", "N">>}

EditorPaths ==
  { <<"/", "w", "/", "a", ".", "b", "r">>,
   <<"/", "w", "/", "a", ".", "j", "s", "o", "n", ".", "b", "r">>,
   <<"/", "w", "/", "n", "o", "t", "e", "s", ".", "m", "d", ".", "b", "r">>,
   <<"/", "w", "/", "a", ".", "J", "S", ".", "b", "r">>,
   <<"/", "w", "/", "a", ".", "t", "x", "t", ".", "b", "r">>,
   <<"/", "w", "/", "a", ".", "u", "n", "k", "n", "o", "w", "n", ".", "b", "r">>,
   <<"/", "w", "/", "D", "o", "c", "k", "e", "r", "f", "i", "l", "e", ".", "b", "r">>,
   <<"/", "w", "/", "a", ".", "h", ".", "b", "r">>}

\* The pieces of the decompressed bytes: texts, among them a long string
\* and a long member of an object, and bytes that are no text.
Pad == [i \in 1..MinContentLength |-> "x"]
TextPieces ==
  { <<" ">>, <<"<", "?", "x", "m", "l", " ">>, <<"{">>, <<"}">>,
   <<"\"", "k", "\"", ":", "1">>,
   <<"<", "!", "D", "O", "C", "T", "Y", "P", "E", " ", "h", "t", "m", "l", ">">>,
   <<"<", "h", "t", "m", "l">>,
   <<"f", "u", "n", "c", "t", "i", "o", "n", " ">>, <<"v", "a", "r", " ">>,
   <<"i", "m", "p", "o", "r", "t", " ", "R", "e", "a", "c", "t">>,
   <<"#", "i", "n", "c", "l", "u", "d", "e", " ", "<">>, <<"[">>, <<"]">>,
   <<"\"">> \o Pad \o <<"\"">>,
   <<"\"", "k", "\"", ":", "\"">> \o Pad \o <<"\"">>}
codeOf(char) == CHOOSE byte \in 0..127 : charOf(byte) = char
encodeUtf8(text) == [i \in 1..Len(text) |-> codeOf(text[i])]
BufferPieces ==
  { encodeUtf8(text) : text \in TextPieces }
  \cup {<<0>>, [i \in 1..10 |-> 0], <<255>>}
RECURSIVE BuffersUpTo(_)
BuffersUpTo(n) ==
  IF n = 0 THEN {<<>>}
  ELSE BuffersUpTo(n - 1)
       \cup { b \o p : b \in BuffersUpTo(n - 1), p \in BufferPieces }
Buffers == BuffersUpTo(MaxPieces)

InitLanguage ==
  /\ ProviderInit /\ disk = EmptyMap
  /\ probe \in
       { [op |-> "utility", fileName |-> f, content |-> c] :
           f \in UtilityFileNames,
           c \in {NoContent} \cup { Given(text) : text \in Contents } }
       \cup
       { [op |-> "editor", fsPath |-> p, buffer |-> b] :
           p \in EditorPaths, b \in Buffers }

\* getLanguageId(probe.fileName, probe.content) returns.
GetLanguageId ==
  /\ probe.op = "utility"
  /\ probe' = [op |-> "getLanguageId",
               fileName |-> probe.fileName,
               content |-> probe.content,
               language |-> getLanguageId(probe.fileName, probe.content)]
  /\ UNCHANGED providerVars

\* resolveCustomEditor has read and decompressed the file and sets the
\* view.
ResolveCustomEditor ==
  /\ probe.op = "editor"
  /\ probe' = [op |-> "resolveCustomEditor",
               fsPath |-> probe.fsPath,
               buffer |-> probe.buffer,
               view |-> resolveCustomEditor(probe.fsPath, probe.buffer)]
  /\ UNCHANGED providerVars

NextLanguage == GetLanguageId \/ ResolveCustomEditor

SpecLanguage == InitLanguage /\ [][NextLanguage]_vars

(***************************************************************************)
(* isBinaryContent applied to a buffer.  A buffer is given by its runs,    *)
(* <<byte, count>> for count times the byte.                               *)
(***************************************************************************)
RECURSIVE BufferOf(_)
BufferOf(runs) ==
  IF runs = <<>> THEN <<>>
  ELSE [i \in 1..Head(runs)[2] |-> Head(runs)[1]] \o BufferOf(Tail(runs))

\* The buffers: count non-printable bytes, then printable bytes up to the
\* length, then bytes beyond the sample when the length is the sample's.
NonPrintableBytes == {0, 31, 127, 255}
PrintableBytes == {9, 10, 13, 32, 126}
Lengths == {0, 1, 9, 10, 11, 20, SampleSize - 1, SampleSize}
Counts(length) ==
  {0, 1, 2, (length \div 10) - 1, length \div 10, (length \div 10) + 1,
   length} \cap 0..length
Excesses(length) == IF length = SampleSize THEN {0, MaxExcess} ELSE {0}
BufferRuns ==
  { <<<<bad, count>>, <<good, length - count>>, <<bad, excess>>>> :
      <<bad, good, length, count, excess>> \in
        { x \in NonPrintableBytes \X PrintableBytes \X Lengths
                \X (0..SampleSize) \X {0, MaxExcess} :
            x[4] \in Counts(x[3]) /\ x[5] \in Excesses(x[3]) } }

InitBinary ==
  /\ ProviderInit /\ disk = EmptyMap
  /\ probe \in { [op |-> "buffer", runs |-> r] : r \in BufferRuns }

\* isBinaryContent(buffer) returns.
IsBinaryContent ==
  /\ probe.op = "buffer"
  /\ probe' = [op |-> "isBinaryContent",
               runs |-> probe.runs,
               binary |-> isBinaryContent(BufferOf(probe.runs))]
  /\ UNCHANGED providerVars

NextBinary == IsBinaryContent

SpecBinary == InitBinary /\ [][NextBinary]_vars

(***************************************************************************)
(* Properties.                                                             *)
(***************************************************************************)
\* The texts returned in place of an error.
ErrorTexts == {ErrorText(ReadError), ErrorText(DecodeError)}

\* Steps, as seen from a pair of states: the call c is issued; the fetch of
\* c ends (its finally block runs); it ends in the catch block; invalidate
\* is called, for the key LastInvalidated.
Issued(c) == calls[c].pc = "idle" /\ calls'[c].pc # "idle"
FetchEnds(c) ==
  calls[c].pc \in {"reading", "decompressing"} /\ calls'[c].pc = "done"
FetchFails(c) == FetchEnds(c) /\ calls[c].key \in failed'
InvalidateCalled == invalidations' # invalidations
LastInvalidated == KeyOf(invalidations'[Len(invalidations')])

\* C1: single flight. For every key at most one call is between
\* processingFiles.add and its finally block, the key is in processingFiles
\* exactly while there is such a call, and while it is there the file is
\* read and its decompression started at most once, exactly once each by
\* the time the decompression runs.
C1_SingleFlight ==
  \A k \in Keys :
    /\ Cardinality(InFlight(k)) <= 1
    /\ k \in processingFiles <=> InFlight(k) # {}
    /\ bursts[k].reads <= 1 /\ bursts[k].decompressions <= 1
    /\ \A c \in InFlight(k) :
         calls[c].pc = "decompressing" =>
           bursts[k].reads = 1 /\ bursts[k].decompressions = 1

\* Two calls for one key at the same time: one decompressing, one waiting.
C1_Witness ==
  \E c, d \in Calls :
    /\ c # d /\ calls[c].key = calls[d].key
    /\ calls[c].pc = "decompressing" /\ calls[d].pc = "waiting"

\* C2: a call that found its key in processingFiles returns only once the
\* fetch it waited for has completed, and returns the result of that fetch.
C2_WaiterGetsFetchResult ==
  \A c \in Calls :
    calls[c].route = "wait" /\ calls[c].pc = "done" =>
      /\ calls[c].waitedOn \in Calls
      /\ calls[calls[c].waitedOn].pc = "done"
      /\ calls[c].outcome = calls[calls[c].waitedOn].outcome

\* C3: a call issued while the cache holds an entry for its key, whatever
\* the payload, returns that entry at once: no read, no decompression, no
\* change of processingFiles.
C3_CacheHit ==
  [][\A c \in Calls :
       Issued(c) /\ calls'[c].key \in DOMAIN contentCache =>
         /\ calls'[c].pc = "done"
         /\ calls'[c].outcome = Fulfilled(contentCache[calls'[c].key])
         /\ processingFiles' = processingFiles]_vars

\* C4: an entry of the cache stays as it is in every step other than an
\* invalidate of its key.
C4_EntryStable ==
  [][\A k \in DOMAIN contentCache :
       \/ InvalidateCalled /\ LastInvalidated = k
       \/ k \in DOMAIN contentCache' /\ contentCache'[k] = contentCache[k]]_vars

\* C5: the first call issued for a key after an invalidate of that key
\* reads the file anew.
C5_FreshAfterInvalidate ==
  [][\A c \in Calls :
       Issued(c) /\ calls'[c].key \in evicted => calls'[c].route = "fetch"]_vars

\* C6: last fetch wins. An invalidate changes neither processingFiles nor
\* any call, and a fetch that ends with the decompressed content has stored
\* that content in the cache, whatever was invalidated while it ran.
C6_LastFetchWins ==
  [][/\ InvalidateCalled => processingFiles' = processingFiles /\ calls' = calls
     /\ \A c \in Calls :
          (/\ FetchEnds(c)
           /\ ~FetchFails(c)
           /\ calls'[c].outcome # Fulfilled(OperationCancelled))
          => /\ calls[c].key \in DOMAIN contentCache'
             /\ calls[c].key \notin processingFiles'
             /\ calls'[c].outcome = Fulfilled(contentCache'[calls[c].key])]_vars

\* A key was invalidated while its fetch ran (no call for the key was issued
\* since), the fetch has completed and its entry is in the cache.
C6_Witness ==
  \E c \in Calls :
    /\ calls[c].pc = "done" /\ calls[c].route = "fetch"
    /\ calls[c].key \in evicted
    /\ calls[c].key \in DOMAIN contentCache
    /\ calls[c].outcome = Fulfilled(contentCache[calls[c].key])

C8_FailedFetchLeavesNoTrace ==
  [][\A c \in Calls :
       /\ FetchFails(c) =>
            /\ contentCache' = contentCache
            /\ calls[c].key \notin processingFiles'
       /\ Issued(c) /\ calls'[c].key \in failed =>
            calls'[c].route = "fetch"]_vars

\* A fetch failed and a later call for the same key fetches again.
C8_Witness ==
  \E f, c \in Calls :
    /\ f < c /\ calls[f].key = calls[c].key
    /\ calls[f].pc = "done" /\ calls[f].route = "fetch"
    /\ calls[f].outcome.value \in ErrorTexts
    /\ calls[c].route = "fetch"

\* C9: no call returns a text in place of an error, and a call that waited
\* for a fetch that failed receives the error of that fetch.
C9_ErrorsPropagate ==
  \A c \in Calls :
    calls[c].pc = "done" =>
      /\ ~(calls[c].outcome.ok /\ calls[c].outcome.value \in ErrorTexts)
      /\ (/\ calls[c].route = "wait"
          /\ calls[c].waitedOn \in Calls
          /\ ~calls[calls[c].waitedOn].outcome.ok)
         => calls[c].outcome = calls[calls[c].waitedOn].outcome

\* C10: a fetch does not stop for the cancellation of its caller: unless it
\* fails, it ends only after the decompression, with the decompressed
\* content in the cache.
C10_CancellationIndependence ==
  [][\A c \in Calls :
       FetchEnds(c) /\ ~FetchFails(c) =>
         /\ calls[c].pc = "decompressing"
         /\ MapGet(contentCache', calls[c].key)
              = brotliDecompress(calls[c].compressed).value]_vars

\* No get call is executing: every call is still to be issued or has
\* returned.
Quiescent == \A c \in Calls : calls[c].pc \in {"idle", "done"}

\* C11: in-flight lifecycle. A key enters processingFiles only in the step
\* of a call issued for it while the cache holds no entry for it and it is
\* not in processingFiles; the step that ends a fetch, on whatever path,
\* takes its key out; and whenever no get call is executing processingFiles
\* is empty.
C11_InFlightLifecycle ==
  [][/\ \A k \in Keys :
          k \in processingFiles' \ processingFiles =>
            /\ k \notin DOMAIN contentCache
            /\ \E c \in Calls :
                 Issued(c) /\ calls'[c].key = k /\ calls'[c].pc = "reading"
     /\ \A c \in Calls : FetchEnds(c) => calls[c].key \notin processingFiles'
     /\ Quiescent' => processingFiles' = {}]_vars

\* Two identifiers are views of one compressed file: they differ, and
\* their queries encode the same location.
SameLocation(u, v) == u # v /\ u.query = v.query

\* C12: views share one entry. Two views of one file have the same cache
\* key; a get through one view while the cache holds the entry that a get
\* through the other view fetched is a hit and starts no fetch; and an
\* invalidate through one view removes the entry of every view.
C12_ViewsShareEntry ==
  [][/\ \A u, v \in VirtualUris : SameLocation(u, v) => KeyOf(u) = KeyOf(v)
     /\ \A c, d \in Calls :
          (/\ Issued(c)
           /\ calls[d].pc = "done" /\ calls[d].route = "fetch"
           /\ SameLocation(calls[d].uri, calls'[c].uri)
           /\ KeyOf(calls[d].uri) \in DOMAIN contentCache
           /\ calls[d].outcome = Fulfilled(contentCache[KeyOf(calls[d].uri)]))
          => /\ calls'[c].pc = "done"
             /\ calls'[c].outcome = calls[d].outcome
             /\ processingFiles' = processingFiles
     /\ InvalidateCalled =>
          \A v \in VirtualUris :
            SameLocation(v, invalidations'[Len(invalidations')])
              => KeyOf(v) \notin DOMAIN contentCache']_vars

\* C13: identifier round trip. The identifier built for a location maps
\* back, without error, to exactly that location, so the cache key of the
\* identifier is the path of the file.
C13_RoundTrip ==
  probe.op = "getOriginalUri" =>
    /\ WellFormedEscapes(probe.virtual.query)
    /\ probe.original = probe.location
    /\ fsPath(probe.original) = fsPath(probe.location)

\* The language ids of the two tables of detectLanguageFromFileName.
NameTags ==
  { EXTENSION_LANGUAGE_MAP[e] : e \in DOMAIN EXTENSION_LANGUAGE_MAP }
  \cup { specialFiles[b] : b \in DOMAIN specialFiles }

\* C15: stage A. The lower-cased extension of the name is looked up in
\* the extension table and its tag returned; only when the table lacks it
\* the lower-cased base name is looked up in the special-name table; when
\* neither has it, or the name is empty, the result is plaintext; and the
\* result is always a tag.
C15_StageA ==
  probe.op = "detectLanguageFromFileName" =>
    /\ probe.language \in NameTags \cup {"plaintext"}
    /\ probe.language =
         IF probe.fileName = <<>> THEN "plaintext"
         ELSE IF toLowerCase(extname(probe.fileName))
                   \in DOMAIN EXTENSION_LANGUAGE_MAP
         THEN EXTENSION_LANGUAGE_MAP[toLowerCase(extname(probe.fileName))]
         ELSE IF toLowerCase(basename(probe.fileName)) \in DOMAIN specialFiles
         THEN specialFiles[toLowerCase(basename(probe.fileName))]
         ELSE "plaintext"

\* The conditions of the content checks, on the trimmed content t: an
\* html/doctype marker, markup, a bracketed text that parses as JSON.
HtmlMarker(t) == Includes(t, DoctypeHtml) \/ StartsWith(t, HtmlTag)
Markup(t) == StartsWith(t, XmlDeclaration) \/ HtmlMarker(t)
WellFormedJson(t) == JsonDelimited(t) /\ JsonParses(t)
TokenTags == {"typescript", "javascript", "plaintext"}

JsOccurrences(content) ==
  Cardinality({ o \in jsPatterns \X (0..Len(content)) :
                  /\ o[2] + Len(o[1]) <= Len(content)
                  /\ SubSeq(content, o[2] + 1, o[2] + Len(o[1])) = o[1] })
TokenRuleApplies ==
  /\ probe.op = "detectLanguageFromContent"
  /\ probe.content # <<>>
  /\ ~Markup(trim(probe.content))
  /\ ~WellFormedJson(trim(probe.content))

EditorTags == { mapping[ext] : ext \in DOMAIN mapping }
\* The file name that resolveCustomEditor classifies, and its text.
OriginalFileName == basenameWithout(probe.fsPath, BrSuffix)
DecompressedText == toStringUtf8(probe.buffer)

\* What C14 gives as the result for the verdict byName of the name stage
\* and the verdict byContent of the content stage on a non-empty text
\* (hasText), tags being the language ids.
Precedence(byName, tags, hasText, byContent) ==
  IF byName \in tags \ {"plaintext"} THEN byName
  ELSE IF /\ byName = "plaintext"
          /\ hasText
          /\ byContent \notin {"plaintext", undefined}
  THEN byContent
  ELSE "plaintext"

\* C14: getLanguageId and resolveCustomEditor return the tag of the name
\* stage when that is a tag other than plaintext, whatever the content;
\* the tag of the content stage only when the name stage gives plaintext
\* and the content is a non-empty text with a verdict other than
\* plaintext; plaintext in every other case.
C14_FilenamePrecedence ==
  /\ probe.op = "getLanguageId" =>
       probe.language =
         Precedence(detectLanguageFromFileName(probe.fileName),
                    NameTags,
                    probe.content.given /\ probe.content # Given(<<>>),
                    IF probe.content.given
                    THEN detectLanguageFromContent(probe.content.text)
                    ELSE undefined)
  /\ probe.op = "resolveCustomEditor" =>
       probe.view.language =
         Precedence(getLanguageForExtension(extname(OriginalFileName)),
                    EditorTags,
                    ~probe.view.binary /\ probe.buffer # <<>>,
                    editorDetectLanguageFromContent(DecompressedText))

\* A name without extension that is in neither table of the name stage.
NoNameVerdict(fileName) ==
  /\ extname(fileName) = <<>>
  /\ toLowerCase(basename(fileName)) \notin DOMAIN specialFiles

\* C19: a file whose name has no extension and is no special name, and
\* whose content is a text that is a well-formed JSON object or array, of
\* any length, is classified json by getLanguageId and by
\* resolveCustomEditor.
C19_JsonSniffing ==
  /\ ( /\ probe.op = "getLanguageId"
       /\ NoNameVerdict(probe.fileName)
       /\ probe.content.given
       /\ WellFormedJson(trim(probe.content.text)) )
     => probe.language = "json"
  /\ ( /\ probe.op = "resolveCustomEditor"
       /\ NoNameVerdict(OriginalFileName)
       /\ ~probe.view.binary
       /\ WellFormedJson(trim(DecompressedText)) )
     => probe.view.language = "json"

\* The length of a buffer given by its runs, and the number of its bytes
\* among the first s that are 0, or below 32 other than 9, 10 and 13, or
\* at least 127.
RECURSIVE LengthOf(_)
LengthOf(runs) ==
  IF runs = <<>> THEN 0 ELSE Head(runs)[2] + LengthOf(Tail(runs))
Counted(byte) ==
  byte = 0 \/ (byte < 32 /\ byte # 9 /\ byte # 10 /\ byte # 13) \/ byte >= 127
RECURSIVE CountAmong(_, _)
CountAmong(runs, s) ==
  IF runs = <<>> \/ s = 0 THEN 0
  ELSE (IF Counted(Head(runs)[1]) THEN Min(Head(runs)[2], s) ELSE 0)
       + CountAmong(Tail(runs), s - Min(Head(runs)[2], s))

\* C18: with s = min(length, 1000) and c the number of counted bytes among
\* the first s, a buffer is binary iff 10 * c > s; so 100 counted bytes in
\* a sample of 1000 are text and 101 are binary, and the empty buffer is
\* text.
C18_BinaryThreshold ==
  probe.op = "isBinaryContent" =>
    /\ probe.binary =
         (10 * CountAmong(probe.runs, Min(LengthOf(probe.runs), 1000))
            > Min(LengthOf(probe.runs), 1000))
    /\ LengthOf(probe.runs) >= 1000 /\ CountAmong(probe.runs, 1000) = 100 =>
         ~probe.binary
    /\ LengthOf(probe.runs) >= 1000 /\ CountAmong(probe.runs, 1000) = 101 =>
         probe.binary
    /\ LengthOf(probe.runs) = 0 => ~probe.binary

\* A buffer longer than 1000 bytes, with 100 counted bytes among the first
\* 1000 and more behind them, was found to be text.
C18_Witness ==
  /\ probe.op = "isBinaryContent"
  /\ LengthOf(probe.runs) > 1000
  /\ CountAmong(probe.runs, 1000) = 100
  /\ CountAmong(probe.runs, LengthOf(probe.runs)) > 100
  /\ ~probe.binary

\* C20: when no fetch of k is in flight and every change of the file of k
\* has been followed by invalidate(k), contentCache holds no entry for k
\* or the decompression of what the file holds now.
C20_NoStaleEntry ==
  \A k \in DOMAIN disk :
    (InFlight(k) = {} /\ k \notin changed /\ k \in DOMAIN contentCache) =>
      /\ readFile(disk[k]).ok
      /\ brotliDecompress(disk[k]).ok
      /\ contentCache[k] = brotliDecompress(disk[k]).value

\* The texts a call returns that are no content of a file.
ReplacementTexts == {PleaseWait, OperationCancelled} \cup ErrorTexts

\* C21: a step that puts a value into contentCache for k is the end of a
\* fetch of k that read brotli data, decompressed it and returns the
\* decompressed text, which is the value; a call that returns the
\* cancellation text or an error text leaves contentCache as it was; no
\* entry is a replacement text.
C21_CachePurity ==
  [][/\ \A k \in Keys :
          (/\ k \in DOMAIN contentCache'
           /\ MapGet(contentCache, k) # contentCache'[k]) =>
            \E c \in Calls :
              /\ FetchEnds(c)
              /\ calls[c].key = k
              /\ calls[c].pc = "decompressing"
              /\ calls[c].compressed.exists
              /\ calls[c].compressed.brotli
              /\ contentCache'[k] = calls[c].compressed.data
              /\ calls'[c].outcome = Fulfilled(contentCache'[k])
     /\ \A c \in Calls :
          (/\ calls'[c].pc = "done"
           /\ calls[c].pc # "done"
           /\ calls'[c].outcome.value
                \in {OperationCancelled} \cup ErrorTexts) =>
            contentCache' = contentCache
     /\ \A k \in DOMAIN contentCache' :
          contentCache'[k] \notin ReplacementTexts]_vars

\* One fetch of a key was cancelled after its decompression, and a later
\* fetch of the key has put the content into the cache.
C21_Witness ==
  \E c, d \in Calls :
    /\ calls[c].key = calls[d].key
    /\ calls[c].pc = "done" /\ calls[d].pc = "done"
    /\ calls[c].route = "fetch" /\ calls[d].route = "fetch"
    /\ calls[c].outcome = Fulfilled(OperationCancelled)
    /\ calls[d].outcome = Fulfilled("v1")
    /\ MapGet(contentCache, calls[d].key) = "v1"

\* C22: every virtual identifier that openBrotliFile, the open command or
\* the file watcher builds has a scheme for which the provider is
\* registered.
C22_BuiltSchemesRegistered ==
  probe.op \in Builders => probe.virtual.scheme \in RegisteredSchemes

\* C23: when a .br file opened through the open command changes, the
\* watcher invalidates, and fires the change event for, the identifier
\* under which the file was opened.
C23_WatcherMatchesOpenedView ==
  probe.op = "onDidChange" => probe.invalidated = probe.opened

\* The call c takes a step of the waiter path: it finds the key in
\* processingFiles and starts its timer, or its timer fires and it returns.
WaiterStep(c) ==
  \/ Issued(c) /\ calls'[c].route = "wait"
  \/ calls[c].pc = "waiting" /\ calls'[c].pc = "done"

\* C24: a key leaves processingFiles only in the last step of the fetch
\* that is in flight for it, the call that added it; a step of the waiter
\* path leaves processingFiles and contentCache as they are; so no second
\* fetch of a key starts while one is in flight.
C24_MarkerOwnership ==
  [][/\ \A k \in processingFiles \ processingFiles' :
          \E c \in Calls :
            /\ InFlight(k) = {c}
            /\ calls[c].route = "fetch"
            /\ FetchEnds(c)
     /\ \A c \in Calls :
          WaiterStep(c) =>
            /\ processingFiles' = processingFiles
            /\ contentCache' = contentCache
     /\ \A c \in Calls :
          (Issued(c) /\ calls'[c].route = "fetch") =>
            InFlight(calls'[c].key) = {}]_vars

\* A waiting call has returned while the fetch it waited for is still in
\* flight, with its key in processingFiles.
C24_Witness ==
  \E c, d \in Calls :
    /\ calls[d].route = "wait" /\ calls[d].pc = "done"
    /\ calls[d].waitedOn = c
    /\ calls[c].key = calls[d].key
    /\ c \in InFlight(calls[c].key)
    /\ calls[c].key \in processingFiles

\* The entry and the marker of the key k are the same before and after
\* the step.
KeyUntouched(k) ==
  /\ MapGet(contentCache', k) = MapGet(contentCache, k)
  /\ (k \in processingFiles') = (k \in processingFiles)

\* C25: a step of a call for the key k, and invalidate(k), leave the entry
\* and the marker of every other key as they are, and invalidate leaves
\* processingFiles as it is.
C25_KeyIsolation ==
  [][/\ \A c \in Calls :
          calls'[c] # calls[c] =>
            \A k \in Keys \ {calls'[c].key} : KeyUntouched(k)
     /\ InvalidateCalled =>
          /\ processingFiles' = processingFiles
          /\ \A k \in Keys \ {LastInvalidated} : KeyUntouched(k)]_vars

\* invalidate(k) has removed the entry that a fetch of k had stored, and
\* another key has its entry.
C25_Witness ==
  /\ invalidations # <<>>
  /\ \E c \in Calls :
       /\ calls[c].pc = "done" /\ calls[c].route = "fetch"
       /\ calls[c].key = KeyOf(invalidations[1])
       /\ calls[c].outcome = Fulfilled("v1")
       /\ calls[c].key \notin DOMAIN contentCache
  /\ \E k \in Keys \ {KeyOf(invalidations[1])} : k \in DOMAIN contentCache

\* C26: every call of provideTextDocumentContent ends by returning a
\* string.  Here for the start of the call with an identifier that the
\* extension has built: the call gets past getOriginalUri, it does not end
\* in an exception.
C26_EveryGetReturns ==
  probe.op = "provideTextDocumentContent" => probe.outcome.ok

\* C27: for a file name whose lower-cased base name is a key of
\* specialFiles, detectLanguageFromFileName returns the tag of that key:
\* jsonc for tsconfig.json, json for package.json.
C27_SpecialFilesHonoured ==
  ( /\ probe.op = "detectLanguageFromFileName"
    /\ toLowerCase(basename(probe.fileName)) \in DOMAIN specialFiles )
  => probe.language = specialFiles[toLowerCase(basename(probe.fileName))]

====
